---- MODULE Spec2Model ----
(***************************************************************************)
(* Model of telegram_from_serial.py: the DSMR P1 reader loop that frames   *)
(* a telegram out of serial lines, checks its CRC16, decodes the OBIS      *)
(* lines and publishes them over MQTT.                                     *)
(*                                                                         *)
(* Text is modelled as a sequence of one-character strings, so that        *)
(* strip, split, startswith, the regular expression, the hexadecimal       *)
(* parse and the CRC are computed character by character as in the code.   *)
(***************************************************************************)
EXTENDS Integers, Sequences, FiniteSets, TLC

(***************************************************************************)
(* Bounds of the model.                                                    *)
(***************************************************************************)
\* number of lines read in one framing phase before the trailer line
MaxLines == 2
\* number of characters after the identifier in a generated line
MaxValueLen == 3

(***************************************************************************)
(* Settings of the script.                                                 *)
(***************************************************************************)
production == TRUE

topic_prefix == <<"p","1","/">>

unidentified_prefix == <<"u","n","i","d","e","n","t","i","f","i","e","d","_","c","o","d","e","/">>

list_of_interesting_codes ==
  <<
    [code  |-> <<"1","-","3",":","0",".","2",".","8">>,
     topic |-> <<"s","t","a","t","u","s","/","d","s","m","r","_","v","e","r","s","i","o","n">>],
    [code  |-> <<"0","-","0",":","1",".","0",".","0">>,
     topic |-> <<"s","t","a","t","u","s","/","c","u","r","r","e","n","t","_","t","i","m","e">>],
    [code  |-> <<"0","-","0",":","9","6",".","1",".","1">>,
     topic |-> <<"s","t","a","t","u","s","/","e","q","u","i","p","m","e","n","t","_","i","d">>],
    [code  |-> <<"0","-","0",":","9","6",".","1","4",".","0">>,
     topic |-> <<"e","l","e","c","t","r","i","c","i","t","y","/","s","t","a","t","u","s","/","t","a","r","i","f","f","_","i","n","d","i","c","a","t","o","r">>],
    [code  |-> <<"0","-","0",":","1","7",".","0",".","0">>,
     topic |-> <<"e","l","e","c","t","r","i","c","i","t","y","/","s","t","a","t","u","s","/","t","h","r","e","s","h","o","l","d">>],
    [code  |-> <<"0","-","0",":","9","6",".","7",".","2","1">>,
     topic |-> <<"e","l","e","c","t","r","i","c","i","t","y","/","s","t","a","t","u","s","/","p","o","w","e","r","_","f","a","i","l","u","r","e","s">>],
    [code  |-> <<"0","-","0",":","9","6",".","7",".","9">>,
     topic |-> <<"e","l","e","c","t","r","i","c","i","t","y","/","s","t","a","t","u","s","/","l","o","n","g","_","p","o","w","e","r","_","f","a","i","l","u","r","e","s">>],
    [code  |-> <<"1","-","0",":","9","9",".","9","7",".","0">>,
     topic |-> <<"e","l","e","c","t","r","i","c","i","t","y","/","s","t","a","t","u","s","/","p","o","w","e","r","_","f","a","i","l","u","r","e","_","e","v","e","n","t","_","l","o","g">>],
    [code  |-> <<"0","-","0",":","9","6",".","1","3",".","0">>,
     topic |-> <<"s","t","a","t","u","s","/","t","e","x","t","_","m","e","s","s","a","g","e">>],
    [code  |-> <<"1","-","0",":","1",".","8",".","1">>,
     topic |-> <<"e","l","e","c","t","r","i","c","i","t","y","/","c","u","m","u","l","a","t","i","v","e","/","c","o","n","s","u","m","e","d","/","t","a","r","i","f","f","_","1">>],
    [code  |-> <<"1","-","0",":","1",".","8",".","2">>,
     topic |-> <<"e","l","e","c","t","r","i","c","i","t","y","/","c","u","m","u","l","a","t","i","v","e","/","c","o","n","s","u","m","e","d","/","t","a","r","i","f","f","_","2">>],
    [code  |-> <<"1","-","0",":","2",".","8",".","1">>,
     topic |-> <<"e","l","e","c","t","r","i","c","i","t","y","/","c","u","m","u","l","a","t","i","v","e","/","d","e","l","i","v","e","r","e","d","/","t","a","r","i","f","f","_","1">>],
    [code  |-> <<"1","-","0",":","2",".","8",".","2">>,
     topic |-> <<"e","l","e","c","t","r","i","c","i","t","y","/","c","u","m","u","l","a","t","i","v","e","/","d","e","l","i","v","e","r","e","d","/","t","a","r","i","f","f","_","2">>],
    [code  |-> <<"1","-","0",":","1",".","7",".","0">>,
     topic |-> <<"e","l","e","c","t","r","i","c","i","t","y","/","a","c","t","u","a","l","/","p","o","w","e","r","/","c","o","n","s","u","m","e","d","/","t","o","t","a","l">>],
    [code  |-> <<"1","-","0",":","2","1",".","7",".","0">>,
     topic |-> <<"e","l","e","c","t","r","i","c","i","t","y","/","a","c","t","u","a","l","/","p","o","w","e","r","/","c","o","n","s","u","m","e","d","/","p","h","a","s","e","_","1">>],
    [code  |-> <<"1","-","0",":","4","1",".","7",".","0">>,
     topic |-> <<"e","l","e","c","t","r","i","c","i","t","y","/","a","c","t","u","a","l","/","p","o","w","e","r","/","c","o","n","s","u","m","e","d","/","p","h","a","s","e","_","2">>],
    [code  |-> <<"1","-","0",":","6","1",".","7",".","0">>,
     topic |-> <<"e","l","e","c","t","r","i","c","i","t","y","/","a","c","t","u","a","l","/","p","o","w","e","r","/","c","o","n","s","u","m","e","d","/","p","h","a","s","e","_","3">>],
    [code  |-> <<"1","-","0",":","2",".","7",".","0">>,
     topic |-> <<"e","l","e","c","t","r","i","c","i","t","y","/","a","c","t","u","a","l","/","p","o","w","e","r","/","d","e","l","i","v","e","r","e","d","/","t","o","t","a","l">>],
    [code  |-> <<"1","-","0",":","2","2",".","7",".","0">>,
     topic |-> <<"e","l","e","c","t","r","i","c","i","t","y","/","a","c","t","u","a","l","/","p","o","w","e","r","/","d","e","l","i","v","e","r","e","d","/","p","h","a","s","e","_","1">>],
    [code  |-> <<"1","-","0",":","4","2",".","7",".","0">>,
     topic |-> <<"e","l","e","c","t","r","i","c","i","t","y","/","a","c","t","u","a","l","/","p","o","w","e","r","/","d","e","l","i","v","e","r","e","d","/","p","h","a","s","e","_","2">>],
    [code  |-> <<"1","-","0",":","6","2",".","7",".","0">>,
     topic |-> <<"e","l","e","c","t","r","i","c","i","t","y","/","a","c","t","u","a","l","/","p","o","w","e","r","/","d","e","l","i","v","e","r","e","d","/","p","h","a","s","e","_","3">>],
    [code  |-> <<"1","-","0",":","3","1",".","7",".","0">>,
     topic |-> <<"e","l","e","c","t","r","i","c","i","t","y","/","a","c","t","u","a","l","/","c","u","r","r","e","n","t","/","p","h","a","s","e","_","1">>],
    [code  |-> <<"1","-","0",":","5","1",".","7",".","0">>,
     topic |-> <<"e","l","e","c","t","r","i","c","i","t","y","/","a","c","t","u","a","l","/","c","u","r","r","e","n","t","/","p","h","a","s","e","_","2">>],
    [code  |-> <<"1","-","0",":","7","1",".","7",".","0">>,
     topic |-> <<"e","l","e","c","t","r","i","c","i","t","y","/","a","c","t","u","a","l","/","c","u","r","r","e","n","t","/","p","h","a","s","e","_","3">>],
    [code  |-> <<"1","-","0",":","3","2",".","7",".","0">>,
     topic |-> <<"e","l","e","c","t","r","i","c","i","t","y","/","a","c","t","u","a","l","/","v","o","l","t","a","g","e","/","p","h","a","s","e","_","1">>],
    [code  |-> <<"1","-","0",":","5","2",".","7",".","0">>,
     topic |-> <<"e","l","e","c","t","r","i","c","i","t","y","/","a","c","t","u","a","l","/","v","o","l","t","a","g","e","/","p","h","a","s","e","_","2">>],
    [code  |-> <<"1","-","0",":","7","2",".","7",".","0">>,
     topic |-> <<"e","l","e","c","t","r","i","c","i","t","y","/","a","c","t","u","a","l","/","v","o","l","t","a","g","e","/","p","h","a","s","e","_","3">>],
    [code  |-> <<"1","-","0",":","3","2",".","3","2",".","0">>,
     topic |-> <<"e","l","e","c","t","r","i","c","i","t","y","/","s","t","a","t","u","s","/","v","o","l","t","a","g","e","_","s","a","g","s","/","p","h","a","s","e","_","1">>],
    [code  |-> <<"1","-","0",":","5","2",".","3","2",".","0">>,
     topic |-> <<"e","l","e","c","t","r","i","c","i","t","y","/","s","t","a","t","u","s","/","v","o","l","t","a","g","e","_","s","a","g","s","/","p","h","a","s","e","_","2">>],
    [code  |-> <<"1","-","0",":","7","2",".","3","2",".","0">>,
     topic |-> <<"e","l","e","c","t","r","i","c","i","t","y","/","s","t","a","t","u","s","/","v","o","l","t","a","g","e","_","s","a","g","s","/","p","h","a","s","e","_","3">>],
    [code  |-> <<"1","-","0",":","3","2",".","3","6",".","0">>,
     topic |-> <<"e","l","e","c","t","r","i","c","i","t","y","/","s","t","a","t","u","s","/","v","o","l","t","a","g","e","_","s","w","e","l","l","s","/","p","h","a","s","e","_","1">>],
    [code  |-> <<"1","-","0",":","5","2",".","3","6",".","0">>,
     topic |-> <<"e","l","e","c","t","r","i","c","i","t","y","/","s","t","a","t","u","s","/","v","o","l","t","a","g","e","_","s","w","e","l","l","s","/","p","h","a","s","e","_","2">>],
    [code  |-> <<"1","-","0",":","7","2",".","3","6",".","0">>,
     topic |-> <<"e","l","e","c","t","r","i","c","i","t","y","/","s","t","a","t","u","s","/","v","o","l","t","a","g","e","_","s","w","e","l","l","s","/","p","h","a","s","e","_","3">>],
    [code  |-> <<"0","-","1",":","2","4",".","2",".","1">>,
     topic |-> <<"g","a","s","/","c","u","m","u","l","a","t","i","v","e","/","c","o","n","s","u","m","e","d">>],
    [code  |-> <<"0","-","1",":","9","6",".","1",".","0">>,
     topic |-> <<"g","a","s","/","s","t","a","t","u","s","/","e","q","u","i","p","m","e","n","t","_","i","d">>]
  >>

(***************************************************************************)
(* Characters and bytes.                                                   *)
(***************************************************************************)
\* the ASCII characters with code points 32 .. 95, in order
Printable ==
  <<" ","!","\"","#","$","%","&","'","(",")","*","+",",","-",".","/","0","1","2","3","4","5","6","7","8","9",":",";","<","=",">","?","@","A","B","C","D","E","F","G","H","I","J","K","L","M","N","O","P","Q","R","S","T","U","V","W","X","Y","Z","[","\\","]","^","_">>

\* the ASCII characters with code points 97 .. 122, in order
Lowercase ==
  <<"a","b","c","d","e","f","g","h","i","j","k","l","m","n","o","p","q","r","s","t","u","v","w","x","y","z">>

CR == "\r"
LF == "\n"
TAB == "\t"

\* utf-8 encoding of one (ASCII) character: str.encode('utf-8')
Ord(c) ==
  IF c = LF THEN 10
  ELSE IF c = CR THEN 13
  ELSE IF c = TAB THEN 9
  ELSE IF \E i \in 1..Len(Lowercase) : Lowercase[i] = c
       THEN 96 + (CHOOSE i \in 1..Len(Lowercase) : Lowercase[i] = c)
       ELSE 31 + (CHOOSE i \in 1..Len(Printable) : Printable[i] = c)

\* the characters str.strip() removes
Whitespace == {" ", TAB, CR, LF}

Digits == {"0","1","2","3","4","5","6","7","8","9"}

(***************************************************************************)
(* String operations of the Python runtime used by the script.             *)
(***************************************************************************)
RECURSIVE LStrip(_)
LStrip(s) ==
  IF s # <<>> /\ Head(s) \in Whitespace THEN LStrip(Tail(s)) ELSE s

RECURSIVE RStrip(_)
RStrip(s) ==
  IF s # <<>> /\ s[Len(s)] \in Whitespace
  THEN RStrip(SubSeq(s, 1, Len(s) - 1))
  ELSE s

\* str.strip()
strip(s) == RStrip(LStrip(s))

\* str.startswith(p)
startswith(s, p) == Len(s) >= Len(p) /\ SubSeq(s, 1, Len(p)) = p

\* str.find(sep): position of the first occurrence of sep, 0 when absent
find(s, sep) ==
  LET hits == {k \in 1..(Len(s) - Len(sep) + 1) :
                 SubSeq(s, k, k + Len(sep) - 1) = sep}
  IN IF hits = {} THEN 0 ELSE CHOOSE k \in hits : \A j \in hits : k <= j

\* str.split(sep): the pieces between the occurrences of sep
RECURSIVE split(_, _)
split(s, sep) ==
  LET k == find(s, sep)
  IN IF k = 0
     THEN <<s>>
     ELSE <<SubSeq(s, 1, k - 1)>> \o split(SubSeq(s, k + Len(sep), Len(s)), sep)

\* str.replace(a, b) for one-character a and b
replace(s, a, b) == [i \in 1..Len(s) |-> IF s[i] = a THEN b ELSE s[i]]

(***************************************************************************)
(* crc16 = crcmod.predefined.mkPredefinedCrcFun('crc16'): CRC-16/ARC,      *)
(* reflected polynomial 0xA001, initial value 0, no final xor.             *)
(***************************************************************************)
Nibble == 0..15
Byte == 0..255

\* bitwise exclusive or of two 4-bit numbers
Xor4[a \in Nibble, b \in Nibble] ==
  LET bit(x, k) == (x \div (2 ^ k)) % 2
      x1(k) == (bit(a, k) + bit(b, k)) % 2
  IN x1(0) + 2 * x1(1) + 4 * x1(2) + 8 * x1(3)

\* bitwise exclusive or of two bytes
Xor8(a, b) ==
  16 * Xor4[a \div 16, b \div 16] + Xor4[a % 16, b % 16]

\* bitwise exclusive or of two 16-bit words
Xor(a, b) ==
  256 * Xor8(a \div 256, b \div 256) + Xor8(a % 256, b % 256)

ReflectedPoly == 40961

\* one bit of the shift register
CrcShift(crc) ==
  IF crc % 2 = 1 THEN Xor(crc \div 2, ReflectedPoly) ELSE crc \div 2

\* the register after a byte has been shifted through it: the table crcmod
\* builds for the polynomial
CrcTable[b \in Byte] ==
  CrcShift(CrcShift(CrcShift(CrcShift(
  CrcShift(CrcShift(CrcShift(CrcShift(b))))))))

\* the update crcmod makes for one byte of input
CrcByte(crc, byte) ==
  Xor(crc \div 256, CrcTable[Xor8(crc % 256, byte)])

\* the register after the bytes lo .. hi of s have gone through it, byte
\* by byte in order.  The range is evaluated in two halves, the register
\* after the first half being made a value (the set of one element) before
\* the second half starts, which keeps the evaluation shallow.
RECURSIVE CrcFrom(_, _, _, _)
CrcFrom(crc, s, lo, hi) ==
  IF lo > hi THEN crc
  ELSE IF lo = hi THEN CrcByte(crc, Ord(s[lo]))
  ELSE LET mid == (lo + hi) \div 2
       IN CHOOSE r \in {CrcFrom(c, s, mid + 1, hi) :
                          c \in {CrcFrom(crc, s, lo, mid)}} : TRUE

\* crc16(text.encode('utf-8')), the register starting at 0
crc16(s) == CrcFrom(0, s, 1, Len(s))

(***************************************************************************)
(* int('0x' + s, 16)                                                       *)
(***************************************************************************)
HexLetters == {"a","b","c","d","e","f","A","B","C","D","E","F"}

HexDigits == Digits \cup HexLetters

HexVal(c) ==
  IF c \in Digits THEN Ord(c) - 48
  ELSE IF Ord(c) >= 97 THEN Ord(c) - 87
  ELSE Ord(c) - 55

\* int() accepts the digits after the 0x prefix when, trailing whitespace
\* removed, they are hexadecimal digits, with single underscores allowed
\* after the prefix and between digits; otherwise it raises ValueError
IsHexLiteral(s) ==
  LET t == RStrip(s)
  IN /\ t # <<>>
     /\ \A i \in 1..Len(t) : t[i] \in HexDigits \cup {"_"}
     /\ t[Len(t)] # "_"
     /\ \A i \in 1..(Len(t) - 1) : ~(t[i] = "_" /\ t[i + 1] = "_")

RECURSIVE HexValue(_, _)
HexValue(acc, s) ==
  IF s = <<>> THEN acc
  ELSE IF Head(s) \in HexDigits
       THEN HexValue(16 * acc + HexVal(Head(s)), Tail(s))
       ELSE HexValue(acc, Tail(s))

\* the value of int('0x' + s, 16) when it does not raise
int16(s) == HexValue(0, RStrip(s))

(***************************************************************************)
(* re.match on a content line.                                             *)
(***************************************************************************)
\* The pattern is  \d*-\d*:\d*.\d*.\d*  in one group: every \d* is greedy and
\* may be empty, every unescaped . takes any one character but a newline.
\* the number of decimal digits of s from position i on
RECURSIVE DigitRun(_, _)
DigitRun(s, i) ==
  IF i <= Len(s) /\ s[i] \in Digits THEN 1 + DigitRun(s, i + 1) ELSE 0

AnyChar(s, i) == i <= Len(s) /\ s[i] # LF

\* the length of the match, 0 when re.match returns None.  The matcher
\* backtracks the third and fourth \d* from their longest run downwards
\* until both . find a character.
re_match(s) ==
  LET p1 == 1 + DigitRun(s, 1)
      p2 == p1 + 1 + DigitRun(s, p1 + 1)
      p3 == p2 + 1
      ways == {w \in (0..DigitRun(s, p3)) \X (0..Len(s)) :
                 /\ AnyChar(s, p3 + w[1])
                 /\ w[2] <= DigitRun(s, p3 + w[1] + 1)
                 /\ AnyChar(s, p3 + w[1] + 1 + w[2])}
      best == CHOOSE w \in ways :
                \A v \in ways : \/ v[1] < w[1]
                                \/ (v[1] = w[1] /\ v[2] <= w[2])
      dot2 == p3 + best[1] + 1 + best[2]
  IN IF /\ p1 <= Len(s) /\ s[p1] = "-"
        /\ p2 <= Len(s) /\ s[p2] = ":"
        /\ ways # {}
     THEN dot2 + DigitRun(s, dot2 + 1)
     ELSE 0

(***************************************************************************)
(* What the serial port can deliver.                                       *)
(***************************************************************************)
CRLF == <<CR, LF>>

BANG == <<"!">>

\* the identification line of a telegram
IdentLine == <<"/","I","S","K","5">>

\* content lines a meter sends, and lines damaged on the wire
ContentLines ==
  { IdentLine,
    <<"1","-","0",":","1",".","8",".","1","(","0","0","0","1","2","3",".","4","5","6","*","k","W","h",")">>,
    <<"0","-","1",":","9","6",".","1",".","0","(","A","B","C","1","2","3",")">>,
    <<"0","-","0",":","1",".","2",".","3","(","A",")","(","B",")">>,
    <<"1","-","0",":","2",".","7",".","0","("," ","5"," ",")">>,
    <<"1","-","0",":","1","#","8",".","1","(","5",")">>,
    <<"-",":","(","1",")">>,
    <<"a","!","1","2">> }

HexChars ==
  <<"0","1","2","3","4","5","6","7","8","9","A","B","C","D","E","F">>

\* the four hexadecimal digits a meter writes for a checksum
Hex4(n) ==
  LET digit(d) == HexChars[d + 1]
  IN << digit((n \div 4096) % 16), digit((n \div 256) % 16),
        digit((n \div 16) % 16), digit(n % 16) >>

\* trailer lines that can follow the telegram text tg: the one a meter
\* sends (the CRC16 of everything up to and including the !), one with a
\* wrong checksum, one that is not hexadecimal and a bare !
TrailerLines(tg) ==
  { BANG \o Hex4(crc16(tg \o BANG)),
    <<"!","0","0","0","0">>,
    <<"!","1","2","G","4">>,
    BANG }

\* ser.readline() returns the bytes of a line with its terminator, or no
\* bytes at all when ser.timeout expires
Timeout == <<>>

RawLines(tg) ==
  {l \o CRLF : l \in ContentLines \cup TrailerLines(tg)} \cup {CRLF, Timeout}

\* beginnings of generated lines: identifiers, and texts one step away from
\* an identifier
LineHeads ==
  { <<"1","-","0",":","1",".","8",".","1">>,
    <<"0","-","0",":","9","6",".","1","4",".","0">>,
    <<"0","-","0",":","1",".","2",".","3">>,
    <<"1","2","-","3",":","4","5",".","6","7",".","8","9">>,
    <<"1","-","0",":","1",".","8">>,
    <<"-","0",":","1",".","8",".","1">>,
    <<"1","-",":","1",".","8",".","1">>,
    <<"1","-","0",":","1","#","8",".","1">>,
    <<"1","-","0",":","1",".","8",".">>,
    <<"1","0",":","1",".","8",".","1">>,
    <<>> }

\* the characters that follow the beginning of a generated line
ValueChars == {"(", ")", " ", ".", "5"}

LineTails == UNION {[1..n -> ValueChars] : n \in 0..MaxValueLen}

\* the generated lines, as ser.readline() returns them
GeneratedRawLines == {h \o v \o CRLF : h \in LineHeads, v \in LineTails}

\* what mqtt_client.publish can do: hand the message over, return an error
\* code, or raise
PublishOutcomes == {"sent", "rc_error", "raises"}

(***************************************************************************)
(* State.                                                                  *)
(***************************************************************************)
\* where the script is: "loop" (line 93), "framing" (111), "close" (132),
\* "verify" (141), "decode" (158), "exited" (sys.exit), "crashed" (an
\* exception nothing catches)
VARIABLE pc
\* the text accumulated so far
VARIABLE telegram
VARIABLE checksum_found
VARIABLE good_checksum
\* ser.is_open
VARIABLE port_open
\* -1 until line 141 has assigned it in this iteration
VARIABLE given_checksum
\* -1 until line 144 has assigned it in this iteration
VARIABLE calculated_checksum
\* position of the for loop of line 158, 0 outside it
VARIABLE line_no
\* the exception that ended the process, "" if none
VARIABLE exc
\* history: the raw lines read in this iteration
VARIABLE rcvd
\* history: the value line 141 parsed, -1 if none
VARIABLE claimed
\* history: a read raised in this iteration
VARIABLE read_failed
\* history: the publish calls of this iteration
VARIABLE published
\* history: ser.open() raised in this iteration
VARIABLE open_failed
\* history: how the iteration before this one ended: "none" in the first
\* iteration, "completed" after a telegram framed up to its trailer,
\* "read_failed" after a read error
VARIABLE previous

vars ==
  << pc, telegram, checksum_found, good_checksum, port_open, given_checksum,
     calculated_checksum, line_no, exc, rcvd, claimed, read_failed, published,
     open_failed, previous >>

Init ==
  /\ pc = "loop"
  /\ telegram = <<>>
  /\ checksum_found = FALSE
  /\ good_checksum = FALSE
  /\ port_open = FALSE
  /\ given_checksum = -1
  /\ calculated_checksum = -1
  /\ line_no = 0
  /\ exc = ""
  /\ rcvd = <<>>
  /\ claimed = -1
  /\ read_failed = FALSE
  /\ published = <<>>
  /\ open_failed = FALSE
  /\ previous = "none"

(***************************************************************************)
(* Decoding and routing of one line of the telegram (lines 161 - 175).     *)
(***************************************************************************)
\* match_result.group(1)
obis_code_of(telegram_line) == SubSeq(telegram_line, 1, re_match(telegram_line))

\* line 167 without the strip() at its end
value_not_stripped(telegram_line) ==
  LET rest == SubSeq(telegram_line, re_match(telegram_line) + 1,
                     Len(telegram_line))
  IN replace(replace(rest, "(", " "), ")", " ")

\* telegram_line[len(obis_code):].replace("(", " ").replace(")", " ").strip()
value_of(telegram_line) ==
  LET rest == SubSeq(telegram_line, re_match(telegram_line) + 1,
                     Len(telegram_line))
  IN strip(replace(replace(rest, "(", " "), ")", " "))

\* obis_code in list_of_interesting_codes
interesting(obis_code) ==
  \E i \in 1..Len(list_of_interesting_codes) :
     list_of_interesting_codes[i].code = obis_code

\* lines 171 - 175 with the fallback topic for every code
topic_unidentified(obis_code) ==
  topic_prefix \o unidentified_prefix \o obis_code

\* line 175 without the code appended to the fallback topic
topic_without_code(obis_code) ==
  IF interesting(obis_code)
  THEN LET i == CHOOSE j \in 1..Len(list_of_interesting_codes) :
                   list_of_interesting_codes[j].code = obis_code
       IN topic_prefix \o list_of_interesting_codes[i].topic
  ELSE topic_prefix \o unidentified_prefix

\* the first argument of mqtt_client.publish
topic_of(obis_code) ==
  IF interesting(obis_code)
  THEN LET i == CHOOSE j \in 1..Len(list_of_interesting_codes) :
                   list_of_interesting_codes[j].code = obis_code
       IN topic_prefix \o list_of_interesting_codes[i].topic
  ELSE topic_prefix \o unidentified_prefix \o obis_code

\* the lines the for loop of line 158 runs over
telegram_lines == split(telegram, CRLF)

(***************************************************************************)
(* The main loop.                                                          *)
(***************************************************************************)
\* line 94 with the text of the iteration before kept
stale_telegram == telegram

\* line 94: telegram = ""
fresh_telegram == <<>>

\* line 125 as a bare except, which catches SystemExit too
handler_catches_all(exception) == TRUE

\* line 125: except Exception catches every exception but SystemExit, which
\* sys.exit raises
handler_catches(exception) == exception # "SystemExit"

\* Lines 93 - 109: a new iteration starts with an empty telegram and opens
\* the serial port; a failure to open ends the process with sys.exit, which
\* the except Exception of line 125 does not catch.  serial.Serial.open
\* raises when the port is open already.
OpenPort(opened) ==
  /\ pc = "loop"
  /\ telegram' = fresh_telegram
  /\ checksum_found' = FALSE
  /\ good_checksum' = FALSE
  /\ given_checksum' = -1
  /\ calculated_checksum' = -1
  /\ line_no' = 0
  /\ rcvd' = <<>>
  /\ claimed' = -1
  /\ read_failed' = FALSE
  /\ published' = <<>>
  /\ previous' = IF claimed = -1 THEN previous
                 ELSE IF read_failed THEN "read_failed"
                 ELSE "completed"
  /\ IF production
     THEN IF opened /\ ~port_open
          THEN /\ port_open' = TRUE
               /\ open_failed' = FALSE
               /\ pc' = "framing"
               /\ exc' = exc
          ELSE /\ port_open' = port_open
               /\ open_failed' = TRUE
               /\ IF handler_catches("SystemExit")
                  THEN /\ pc' = "close"
                       /\ exc' = exc
                  ELSE /\ pc' = "exited"
                       /\ exc' = "SystemExit"
     ELSE /\ port_open' = port_open
          /\ open_failed' = FALSE
          /\ pc' = "framing"
          /\ exc' = exc

\* line 117 with a test for a ! anywhere in the line
is_trailer_anywhere(telegram_line) == find(telegram_line, BANG) > 0

\* line 117: telegram_line.startswith("!")
is_trailer(telegram_line) == startswith(telegram_line, BANG)

\* line 123 with a bare line feed as the terminator
with_newline(telegram_line) == telegram_line \o <<LF>>

\* line 123: telegram_line + '\r\n'
with_terminator(telegram_line) == telegram_line \o CRLF

\* Lines 113 - 123: the body of the while loop for the bytes raw_line that
\* ser.readline() returned.  At most MaxLines lines are read before the
\* trailer line.
TakeLine(raw_line) ==
  /\ pc = "framing"
  /\ UNCHANGED << open_failed, previous >>
  /\ ~checksum_found
  /\ LET telegram_line == strip(raw_line)
     IN /\ Len(rcvd) < MaxLines \/ is_trailer(telegram_line)
        /\ IF is_trailer(telegram_line)
           THEN /\ telegram' = telegram \o telegram_line
                /\ checksum_found' = TRUE
                /\ pc' = "close"
           ELSE /\ telegram' = IF telegram_line # <<>>
                               THEN telegram \o with_terminator(telegram_line)
                               ELSE telegram
                /\ checksum_found' = checksum_found
                /\ pc' = "framing"
  /\ rcvd' = Append(rcvd, raw_line)
  /\ UNCHANGED << good_checksum, port_open, given_checksum,
                  calculated_checksum, line_no, exc, claimed, read_failed,
                  published >>

\* Lines 111 - 123: one pass of the while loop.
ReadLine == \E raw_line \in RawLines(telegram) : TakeLine(raw_line)

\* the read error with line 131 skipped, as if the close were inside the try
ReadErrorSkipsClose ==
  /\ pc = "framing"
  /\ UNCHANGED << open_failed, previous >>
  /\ ~checksum_found
  /\ pc' = "verify"
  /\ read_failed' = TRUE
  /\ UNCHANGED << telegram, checksum_found, good_checksum, port_open,
                  given_checksum, calculated_checksum, line_no, exc, rcvd,
                  claimed, published >>

\* Lines 113 - 114 raising (the port fails, the bytes are not utf-8) and
\* lines 125 - 129: the handler prints the exception and falls through to
\* line 131.
ReadError ==
  /\ pc = "framing"
  /\ UNCHANGED << open_failed, previous >>
  /\ ~checksum_found
  /\ pc' = "close"
  /\ read_failed' = TRUE
  /\ UNCHANGED << telegram, checksum_found, good_checksum, port_open,
                  given_checksum, calculated_checksum, line_no, exc, rcvd,
                  claimed, published >>

\* Lines 131 - 137: close the port; a failure to close ends the process.
ClosePort(closed) ==
  /\ pc = "close"
  /\ UNCHANGED << open_failed, previous >>
  /\ IF production
     THEN IF closed
          THEN /\ port_open' = FALSE
               /\ pc' = "verify"
               /\ exc' = exc
          ELSE /\ port_open' = port_open
               /\ pc' = "exited"
               /\ exc' = "SystemExit"
     ELSE /\ port_open' = port_open
          /\ pc' = "verify"
          /\ exc' = exc
  /\ UNCHANGED << telegram, checksum_found, good_checksum, given_checksum,
                  calculated_checksum, line_no, rcvd, claimed, read_failed,
                  published >>

\* the text the CRC is computed over (line 144)
crc_input(tg) == split(tg, BANG)[1]

\* Lines 139 - 152.  telegram.split("!")[1] raises IndexError when the
\* telegram holds no !, int raises ValueError when the text after the ! is
\* not a hexadecimal number; nothing catches either.  Line 148 then assigns
\* the calculated checksum to given_checksum before line 150 compares them.
Verify ==
  /\ pc = "verify"
  /\ UNCHANGED << open_failed, previous >>
  /\ LET parts == split(telegram, BANG)
     IN IF Len(parts) < 2
        THEN /\ pc' = "crashed"
             /\ exc' = "IndexError"
             /\ UNCHANGED << given_checksum, calculated_checksum, claimed,
                             line_no >>
        ELSE IF ~IsHexLiteral(parts[2])
        THEN /\ pc' = "crashed"
             /\ exc' = "ValueError"
             /\ UNCHANGED << given_checksum, calculated_checksum, claimed,
                             line_no >>
        ELSE LET parsed == int16(parts[2])
                 calculated == crc16(crc_input(telegram))
                 given == calculated
             IN /\ claimed' = parsed
                /\ calculated_checksum' = calculated
                /\ given_checksum' = given
                /\ exc' = exc
                /\ IF given = calculated
                   THEN /\ pc' = "decode"
                        /\ line_no' = 1
                   ELSE /\ pc' = "loop"
                        /\ line_no' = line_no
  /\ UNCHANGED << telegram, checksum_found, good_checksum, port_open, rcvd,
                  read_failed, published >>

\* where the script goes after the line at line_no of the for loop
AfterLine ==
  IF line_no < Len(telegram_lines)
  THEN /\ pc' = "decode"
       /\ line_no' = line_no + 1
  ELSE /\ pc' = "loop"
       /\ line_no' = 0

\* Lines 158 - 162 for a line the pattern does not match: nothing happens.
SkipLine ==
  /\ pc = "decode"
  /\ UNCHANGED << open_failed, previous >>
  /\ re_match(telegram_lines[line_no]) = 0
  /\ AfterLine
  /\ UNCHANGED << telegram, checksum_found, good_checksum, port_open,
                  given_checksum, calculated_checksum, exc, rcvd, claimed,
                  read_failed, published >>

\* Lines 158 - 175 for a line the pattern matches: the code and the value
\* are published; an exception raised by publish is caught nowhere.
PublishLine(outcome) ==
  /\ pc = "decode"
  /\ UNCHANGED << open_failed, previous >>
  /\ re_match(telegram_lines[line_no]) > 0
  /\ LET telegram_line == telegram_lines[line_no]
         obis_code == obis_code_of(telegram_line)
         value == value_of(telegram_line)
     IN published' = Append(published,
                            [line |-> line_no, obis_code |-> obis_code,
                             topic |-> topic_of(obis_code), value |-> value,
                             outcome |-> outcome])
  /\ IF outcome = "raises"
     THEN /\ pc' = "crashed"
          /\ exc' = "PublishError"
          /\ line_no' = line_no
     ELSE /\ AfterLine
          /\ exc' = exc
  /\ UNCHANGED << telegram, checksum_found, good_checksum, port_open,
                  given_checksum, calculated_checksum, rcvd, claimed,
                  read_failed >>

Next ==
  \/ \E opened \in BOOLEAN : OpenPort(opened)
  \/ ReadLine
  \/ ReadError
  \/ \E closed \in BOOLEAN : ClosePort(closed)
  \/ Verify
  \/ SkipLine
  \/ \E outcome \in PublishOutcomes : PublishLine(outcome)

Spec == Init /\ [][Next]_vars

TypeOK ==
  /\ pc \in {"loop", "framing", "close", "verify", "decode", "exited",
             "crashed"}
  /\ checksum_found \in BOOLEAN
  /\ port_open \in BOOLEAN
  /\ open_failed \in BOOLEAN
  /\ previous \in {"none", "completed", "read_failed"}
  /\ line_no \in 0..Len(telegram_lines)

(***************************************************************************)
(* The same loop reading one generated line and a trailer per telegram.    *)
(***************************************************************************)
\* Lines 111 - 123 for the first line of an iteration, a generated line
ReadGenerated ==
  /\ rcvd = <<>>
  /\ \E raw_line \in GeneratedRawLines : TakeLine(raw_line)

\* Lines 111 - 123 for the second line of an iteration, a trailer
ReadTrailer ==
  /\ rcvd # <<>>
  /\ TakeLine(<<"!","0","0","0","0">> \o CRLF)

NextDecode ==
  \/ \E opened \in BOOLEAN : OpenPort(opened)
  \/ ReadGenerated
  \/ ReadTrailer
  \/ \E closed \in BOOLEAN : ClosePort(closed)
  \/ Verify
  \/ SkipLine
  \/ \E outcome \in PublishOutcomes : PublishLine(outcome)

DecodeSpec == Init /\ [][NextDecode]_vars

(***************************************************************************)
(* The framing history, read off the raw lines of the iteration.           *)
(***************************************************************************)
\* the first character of raw_line that is not white space is a !
BeginsWithBang(raw_line) ==
  \E i \in 1..Len(raw_line) :
     /\ raw_line[i] = "!"
     /\ \A j \in 1..(i - 1) : raw_line[j] \in Whitespace

\* raw_line holds white space only, or nothing
IsBlank(raw_line) == \A i \in 1..Len(raw_line) : raw_line[i] \in Whitespace

\* raw_line without the white space at its two ends
Trimmed(raw_line) ==
  LET inked == {i \in 1..Len(raw_line) : raw_line[i] \notin Whitespace}
      first == CHOOSE i \in inked : \A j \in inked : i <= j
      last == CHOOSE i \in inked : \A j \in inked : j <= i
  IN IF inked = {} THEN <<>> ELSE SubSeq(raw_line, first, last)

\* the lines of a history joined as a telegram: each line that is not blank
\* followed by CR LF, a line beginning with ! as it is
RECURSIVE Joined(_)
Joined(raws) ==
  IF raws = <<>> THEN <<>>
  ELSE (IF IsBlank(Head(raws)) THEN <<>>
        ELSE IF BeginsWithBang(Head(raws)) THEN Trimmed(Head(raws))
        ELSE Trimmed(Head(raws)) \o <<"\r", "\n">>) \o Joined(Tail(raws))

\* the trailer line of a completed telegram
TrailerLine == Trimmed(rcvd[Len(rcvd)])

\* the text of a completed telegram up to and including the ! of its trailer
FramedBody == SubSeq(telegram, 1, Len(telegram) - Len(TrailerLine) + 1)

\* the checksum the trailer of a completed telegram claims equals the CRC16
\* of the telegram up to and including the !
ChecksumMatches ==
  /\ checksum_found
  /\ IsHexLiteral(Tail(TrailerLine))
  /\ int16(Tail(TrailerLine)) = crc16(FramedBody)

(***************************************************************************)
(* C1                                                                      *)
(***************************************************************************)
\* C1: no line of a telegram is decoded or published unless the checksum
\* parsed from the hexadecimal suffix of its trailer equals the CRC computed
\* over the telegram body (be it the CRC the script calculated at line 144
\* or the CRC16 of the telegram up to and including the !).
C1_IntegrityGate ==
  (pc = "decode" \/ published # <<>>) =>
     (claimed = calculated_checksum \/ ChecksumMatches)

(***************************************************************************)
(* C2                                                                      *)
(***************************************************************************)
\* C2: framing is complete (the completion flag is set and the read phase
\* left) if and only if a line beginning with ! has been read in this
\* iteration; no other line completes a frame and no line is read after the
\* trailer line.
C2_CompletesOnTrailerOnly ==
  /\ checksum_found <=> (\E i \in 1..Len(rcvd) : BeginsWithBang(rcvd[i]))
  /\ checksum_found => pc # "framing"
  /\ \A i \in 1..(Len(rcvd) - 1) : ~BeginsWithBang(rcvd[i])

\* a frame completed after a timeout and a line with a ! inside it
C2_Witness ==
  /\ pc = "close"
  /\ checksum_found
  /\ \E i \in 1..Len(rcvd) : rcvd[i] = Timeout
  /\ \E i \in 1..Len(rcvd) :
        find(rcvd[i], BANG) > 0 /\ ~BeginsWithBang(rcvd[i])

(***************************************************************************)
(* C3                                                                      *)
(***************************************************************************)
\* C3: the telegram text is every line read since the frame began that is
\* not empty, in the order read and each followed by CR LF, then the trailer
\* line as it is with no terminator; an empty line changes nothing.
C3_TelegramIsLinesJoined == telegram = Joined(rcvd)

\* a completed telegram of two different content lines and a trailer
C3_Witness ==
  /\ checksum_found
  /\ Len(rcvd) = 3
  /\ ~IsBlank(rcvd[1]) /\ ~IsBlank(rcvd[2])
  /\ rcvd[1] # rcvd[2]
  /\ Len(TrailerLine) > 1

(***************************************************************************)
(* C4                                                                      *)
(***************************************************************************)
\* C4: the calculated checksum of a completed telegram is the CRC16 of all
\* its text up to and including the ! of the trailer, the hexadecimal digits
\* after it left out, so that a telegram carrying the checksum the meter
\* computed is compared with claimed = computed.
C4_CrcCoversMarker ==
  (checksum_found /\ calculated_checksum # -1) =>
     /\ calculated_checksum = crc16(FramedBody)
     /\ ChecksumMatches => claimed = calculated_checksum

(***************************************************************************)
(* C5                                                                      *)
(***************************************************************************)
\* C5: when a read times out the telegram in progress is abandoned and the
\* accumulator emptied: no line read before the timeout is part of the
\* telegram afterwards.
C5_TimeoutAbandons ==
  \A i \in 1..Len(rcvd) :
     rcvd[i] = Timeout => telegram = Joined(SubSeq(rcvd, i + 1, Len(rcvd)))

(***************************************************************************)
(* C6                                                                      *)
(***************************************************************************)
\* C6: a telegram with no trailer, or with a trailer that is not
\* hexadecimal, does not end the process: neither the IndexError nor the
\* ValueError of the checksum parsing escapes the loop.
C6_BadTrailerRecoverable ==
  ~(pc = "crashed" /\ exc \in {"IndexError", "ValueError"})

(***************************************************************************)
(* C7                                                                      *)
(***************************************************************************)
\* C7: after a read error the telegram in progress is neither verified nor
\* decoded nor published, and the process goes on.
C7_ReadErrorAbandons ==
  read_failed => /\ pc \notin {"decode", "crashed"}
                 /\ claimed = -1
                 /\ published = <<>>

(***************************************************************************)
(* C8                                                                      *)
(***************************************************************************)
\* C8: when a publish has failed, the for loop still ends with every line
\* of the telegram that the pattern matches published.
C8_PublishFailureContained ==
  (/\ pc \in {"loop", "crashed"}
   /\ \E i \in 1..Len(published) : published[i].outcome # "sent")
  => \A k \in 1..Len(telegram_lines) :
        re_match(telegram_lines[k]) > 0 =>
           \E i \in 1..Len(published) : published[i].line = k

(***************************************************************************)
(* The identifier pattern: five groups of one or more decimal digits,      *)
(* separated by - : . and . in this order.                                 *)
(***************************************************************************)
\* the length of the identifier line begins with, 0 when it begins with none
IdentifierLen(line) ==
  LET g1 == DigitRun(line, 1)
      dash == g1 + 1
      g2 == DigitRun(line, dash + 1)
      colon == dash + g2 + 1
      g3 == DigitRun(line, colon + 1)
      dot1 == colon + g3 + 1
      g4 == DigitRun(line, dot1 + 1)
      dot2 == dot1 + g4 + 1
      g5 == DigitRun(line, dot2 + 1)
  IN IF /\ g1 > 0 /\ g2 > 0 /\ g3 > 0 /\ g4 > 0 /\ g5 > 0
        /\ dot2 <= Len(line)
        /\ line[dash] = "-" /\ line[colon] = ":"
        /\ line[dot1] = "." /\ line[dot2] = "."
     THEN dot2 + g5
     ELSE 0

\* the for loop of line 158 is done with line k of the telegram
Decoded(k) ==
  \/ pc = "decode" /\ k < line_no
  \/ pc = "crashed" /\ exc = "PublishError" /\ k <= line_no
  \/ pc = "loop" /\ claimed # -1

(***************************************************************************)
(* C9                                                                      *)
(***************************************************************************)
\* C9: nothing is published for a line that does not begin with the
\* identifier pattern.
C9_NoIdentifierNoPublish ==
  \A i \in 1..Len(published) :
     IdentifierLen(telegram_lines[published[i].line]) > 0

(***************************************************************************)
(* C10                                                                     *)
(***************************************************************************)
NotBlankChar(c) == c \notin Whitespace

NotBlankNorParen(c) == c \notin Whitespace \cup {"(", ")"}

\* the data point is the one the line stands for: its identifier is the
\* identifier the line begins with, its value is the rest of the line
\* without parentheses and without white space at its ends
IsDataPointOf(point, line) ==
  LET n == IdentifierLen(line)
      rest == SubSeq(line, n + 1, Len(line))
      v == point.value
  IN /\ point.obis_code = SubSeq(line, 1, n)
     /\ \A i \in 1..Len(v) : v[i] \notin {"(", ")"}
     /\ v # <<>> => (v[1] \notin Whitespace /\ v[Len(v)] \notin Whitespace)
     /\ SelectSeq(v, NotBlankChar) = SelectSeq(rest, NotBlankNorParen)

\* C10: a line that begins with the identifier pattern is decoded to
\* exactly one data point, whose identifier is the matched prefix and whose
\* value is the rest of the line with no parenthesis in it and no white
\* space at its ends.
C10_OneDataPointPerIdentifier ==
  \A k \in 1..Len(telegram_lines) :
     (Decoded(k) /\ IdentifierLen(telegram_lines[k]) > 0) =>
        LET points == {i \in 1..Len(published) : published[i].line = k}
        IN /\ Cardinality(points) = 1
           /\ \A i \in points : IsDataPointOf(published[i], telegram_lines[k])

\* a line with an identifier followed by a parenthesis, white space and a
\* digit has been decoded and published
C10_Witness ==
  /\ pc = "loop"
  /\ Len(published) = 1
  /\ LET line == telegram_lines[published[1].line]
         n == IdentifierLen(line)
     IN /\ n > 0
        /\ Len(line) >= n + 3
        /\ line[n + 1] = "(" /\ line[n + 2] = " "
        /\ published[1].value # <<>>

(***************************************************************************)
(* C11                                                                     *)
(***************************************************************************)
\* the identifiers the route table has a destination for
RouteKeys ==
  {list_of_interesting_codes[i].code :
     i \in 1..Len(list_of_interesting_codes)}

\* the destinations the route table leads to
MappedDestinations ==
  {topic_prefix \o list_of_interesting_codes[i].topic :
     i \in 1..Len(list_of_interesting_codes)}

\* C11: a data point whose identifier is not in the route table goes to a
\* destination that no table entry leads to, and two such data points go to
\* the same destination exactly when they have the same identifier.
C11_FallbackDestination ==
  \A i \in 1..Len(published) :
     published[i].obis_code \notin RouteKeys =>
        /\ published[i].topic \notin MappedDestinations
        /\ \A j \in 1..Len(published) :
              published[j].obis_code \notin RouteKeys =>
                 (published[i].obis_code = published[j].obis_code
                    <=> published[i].topic = published[j].topic)

\* two data points with different identifiers, neither in the route table,
\* have been published
C11_Witness ==
  /\ Len(published) = 2
  /\ published[1].obis_code \notin RouteKeys
  /\ published[2].obis_code \notin RouteKeys
  /\ published[1].obis_code # published[2].obis_code

(***************************************************************************)
(* C12                                                                     *)
(***************************************************************************)
GasLine == <<"0","-","1",":","9","6",".","1",".","0","(","A","B","C","1","2","3",")">>

\* the data points published for the line GasLine
GasPoints ==
  {i \in 1..Len(published) : telegram_lines[published[i].line] = GasLine}

\* C12 as claimed: the line 0-1:96.1.0(ABC123) goes to the fallback
\* destination unidentified_code/0-1:96.1.0, its identifier not being in the
\* route table.
C12_GasIdUnrouted ==
  \A i \in GasPoints :
     /\ published[i].obis_code \notin RouteKeys
     /\ published[i].topic = topic_prefix \o <<"u","n","i","d","e","n","t","i","f","i","e","d","_","c","o","d","e","/","0","-","1",":","9","6",".","1",".","0">>

\* C12 as amended: the identifier 0-1:96.1.0 is a key of the route table
\* and the line 0-1:96.1.0(ABC123) goes to the configured destination
\* gas/status/equipment_id with the value ABC123.
C12_GasIdRouted ==
  \A i \in GasPoints :
     /\ published[i].obis_code = <<"0","-","1",":","9","6",".","1",".","0">>
     /\ published[i].obis_code \in RouteKeys
     /\ published[i].topic = topic_prefix \o <<"g","a","s","/","s","t","a","t","u","s","/","e","q","u","i","p","m","e","n","t","_","i","d">>
     /\ published[i].value = <<"A","B","C","1","2","3">>

\* the line 0-1:96.1.0(ABC123) has been published
C12_Witness ==
  /\ GasPoints # {}
  /\ \A i \in GasPoints : published[i].outcome = "sent"

(***************************************************************************)
(* C13                                                                     *)
(***************************************************************************)
\* the destination the route table configures for a key
RouteDestination(id) ==
  LET i == CHOOSE j \in 1..Len(list_of_interesting_codes) :
                list_of_interesting_codes[j].code = id
  IN list_of_interesting_codes[i].topic

\* the lines of the telegram that begin with an identifier
IdentifierLines ==
  {k \in 1..Len(telegram_lines) : IdentifierLen(telegram_lines[k]) > 0}

\* line k has been published once, to the configured destination when its
\* identifier is a key of the route table
PublishedOnce(k) ==
  LET points == {i \in 1..Len(published) : published[i].line = k}
      id == SubSeq(telegram_lines[k], 1, IdentifierLen(telegram_lines[k]))
  IN /\ Cardinality(points) = 1
     /\ \A i \in points :
           /\ published[i].obis_code = id
           /\ id \in RouteKeys =>
                published[i].topic = topic_prefix \o RouteDestination(id)
           /\ telegram_lines[k] = <<"1","-","0",":","1",".","8",".","1","(","0","0","0","1","2","3",".","4","5","6","*","k","W","h",")">> =>
                /\ published[i].value = <<"0","0","0","1","2","3",".","4","5","6","*","k","W","h">>
                /\ published[i].topic = topic_prefix \o <<"e","l","e","c","t","r","i","c","i","t","y","/","c","u","m","u","l","a","t","i","v","e","/","c","o","n","s","u","m","e","d","/","t","a","r","i","f","f","_","1">>

\* the publish calls were made in the order of the lines
InLineOrder ==
  \A i, j \in 1..Len(published) :
     i < j => published[i].line < published[j].line

\* the script is done with the telegram: the for loop has ended or the
\* process has
DoneWithTelegram == pc \in {"loop", "crashed"} /\ checksum_found

\* C13: when the script is done with a completed telegram whose checksum is
\* correct, every line that begins with an identifier has been published
\* exactly once, in line order, to the configured destination when the
\* identifier is a key of the route table.
C13_EveryIdentifierLinePublished ==
  (DoneWithTelegram /\ ChecksumMatches) =>
     /\ \A k \in IdentifierLines : PublishedOnce(k)
     /\ InLineOrder

\* the same for the telegrams the for loop has gone through to its end
C13_WhenLoopEnds ==
  (pc = "loop" /\ checksum_found /\ ChecksumMatches) =>
     /\ \A k \in IdentifierLines : PublishedOnce(k)
     /\ InLineOrder

(***************************************************************************)
(* C14                                                                     *)
(***************************************************************************)
\* C14: the process ends only in the step that opens the port: no failure
\* while reading, closing, verifying, decoding or publishing ends it.
C14_OnlyOpenFailureTerminates ==
  [][pc' \in {"exited", "crashed"} => pc = "loop"]_vars

(***************************************************************************)
(* C15                                                                     *)
(***************************************************************************)
\* C15: every framing phase starts with an empty telegram and the
\* completion flag false, however the iteration before it ended.
C15_FramingStartsEmpty ==
  [][(pc' = "framing" /\ pc # "framing") =>
        (telegram' = <<>> /\ ~checksum_found')]_vars

\* a framing phase starts after an iteration that ended in a read error and
\* left text in the accumulator
C15_Witness ==
  /\ pc = "framing"
  /\ rcvd = <<>>
  /\ previous = "read_failed"
  /\ telegram = <<>>
  /\ ~checksum_found

(***************************************************************************)
(* C16                                                                     *)
(***************************************************************************)
IsInked(raw_line) == ~IsBlank(raw_line)

\* the lines read in this iteration that are not blank
InkedLines == SelectSeq(rcvd, IsInked)

\* C16: every publish of an iteration is made for a line read in the
\* framing phase of that same iteration: the published line k of the
\* telegram is the k-th line read in this iteration that is not blank.
C16_PublishedFromThisIteration ==
  \A i \in 1..Len(published) :
     /\ published[i].line <= Len(InkedLines)
     /\ telegram_lines[published[i].line]
          = Trimmed(InkedLines[published[i].line])

\* a publish in an iteration that follows a completed telegram
C16_Witness ==
  /\ previous = "completed"
  /\ published # <<>>
  /\ Len(InkedLines) = 2

(***************************************************************************)
(* C17                                                                     *)
(***************************************************************************)
\* C17: for a completed telegram the CRC is calculated over all the text
\* before the ! of the trailer line and the claimed checksum is parsed from
\* the characters after that !, also when a content line holds a ! that is
\* not its first character.
C17_SplitAtTrailerMarker ==
  (checksum_found /\ claimed # -1) =>
     /\ calculated_checksum
          = crc16(SubSeq(telegram, 1, Len(telegram) - Len(TrailerLine)))
     /\ IsHexLiteral(Tail(TrailerLine))
     /\ claimed = int16(Tail(TrailerLine))

(***************************************************************************)
(* C18                                                                     *)
(***************************************************************************)
\* C18: when ser.open() fails the process ends there: the handler of the
\* framing phase does not take the failure, no line is read and nothing is
\* verified or published in that iteration.
C18_OpenFailureExits ==
  open_failed => /\ pc = "exited"
                 /\ exc = "SystemExit"
                 /\ rcvd = <<>>
                 /\ ~read_failed
                 /\ claimed = -1
                 /\ published = <<>>

\* the port failed to open after a telegram had been completed
C18_Witness ==
  /\ open_failed
  /\ pc = "exited"
  /\ previous = "completed"

(***************************************************************************)
(* C19                                                                     *)
(***************************************************************************)
\* the telegram begins with an identification line
BeginsWithIdentification == telegram # <<>> /\ telegram[1] = "/"

\* C19: every telegram that is verified, decoded or published begins with
\* the identification line of the meter; lines read before one are part of
\* no such telegram.
C19_TelegramBeginsWithIdentification ==
  (claimed # -1 \/ pc = "decode" \/ published # <<>>) =>
     BeginsWithIdentification

(***************************************************************************)
(* C20                                                                     *)
(***************************************************************************)
\* C20: while the process runs the port is open exactly in the framing
\* phase, up to the close of line 134, and it is closed before verification
\* on the completed and on the read-error path alike; the port is opened
\* only by the first step of an iteration and only when it is closed; a
\* line is read only from an open port.
C20_PortOpenOnlyWhileFraming ==
  /\ [](/\ pc = "loop" => ~port_open
        /\ pc \in {"framing", "close"} => port_open
        /\ pc \in {"verify", "decode", "crashed"} => ~port_open)
  /\ [][(port_open' /\ ~port_open) => (pc = "loop" /\ pc' = "framing")]_vars
  /\ [][(rcvd' # rcvd /\ rcvd' # <<>>) => (port_open /\ port_open')]_vars

\* verification is reached with the port closed after a read error that
\* followed a line
C20_Witness ==
  /\ pc = "verify"
  /\ read_failed
  /\ rcvd # <<>>
  /\ ~port_open

====
